---- MODULE Spec2Model ----
(***************************************************************************)
(* Model of fixLicense.py: the license-header checker.                     *)
(*                                                                         *)
(* Text is modelled character by character: a string is a sequence of     *)
(* one-character strings, a line is a string (ending in "\n" when the line *)
(* is terminated), the file on disk is one string, and the list a Python   *)
(* readlines() returns is a sequence of lines.  Indices are 0-based as in  *)
(* the source; At(s, i) reads s[i].                                        *)
(***************************************************************************)
EXTENDS Integers, Sequences, FiniteSets, TLC

(***************************************************************************)
(* Python string and list primitives used by the program.                  *)
(***************************************************************************)

\* s[i] with a 0-based index 0 <= i < len(s)
At(s, i) == s[i + 1]

\* list.append(x) / list.insert(0, x)
PyAppend(s, x) == Append(s, x)
PyInsertFront(s, x) == <<x>> \o s

\* s[a:] and s[:b] for a list or string, with Python's clamping of the index
\* (a negative index counts from the end)
PyNorm(s, i) == IF i < 0 THEN (IF Len(s) + i < 0 THEN 0 ELSE Len(s) + i)
                ELSE (IF i > Len(s) THEN Len(s) ELSE i)
PyFrom(s, a) == SubSeq(s, PyNorm(s, a) + 1, Len(s))
PyUpTo(s, b) == SubSeq(s, 1, PyNorm(s, b))
PySlice(s, a, b) == SubSeq(s, PyNorm(s, a) + 1, PyNorm(s, b))

\* the characters str.strip() removes
Whitespace == {" ", "\n", "\t", "\r"}

RECURSIVE LStrip(_)
LStrip(s) == IF s # <<>> /\ Head(s) \in Whitespace THEN LStrip(Tail(s)) ELSE s

RECURSIVE RStrip(_)
RStrip(s) == IF s # <<>> /\ s[Len(s)] \in Whitespace
             THEN RStrip(SubSeq(s, 1, Len(s) - 1)) ELSE s

\* str.strip()
Strip(s) == RStrip(LStrip(s))

\* str.startswith(p) / str.endswith(p)
StartsWith(s, p) == Len(p) <= Len(s) /\ SubSeq(s, 1, Len(p)) = p
EndsWith(s, p) == Len(p) <= Len(s) /\ SubSeq(s, Len(s) - Len(p) + 1, Len(s)) = p

\* p in s (substring)
Contains(s, p) == \E k \in 0..(Len(s) - Len(p)) : SubSeq(s, k + 1, k + Len(p)) = p

UpperCase == <<"A","B","C","D","E","F","G","H","I","J","K","L","M",
               "N","O","P","Q","R","S","T","U","V","W","X","Y","Z">>
LowerCase == <<"a","b","c","d","e","f","g","h","i","j","k","l","m",
               "n","o","p","q","r","s","t","u","v","w","x","y","z">>

UpperSet == {UpperCase[k] : k \in 1..Len(UpperCase)}
LowerMap == [ch \in UpperSet |-> LowerCase[CHOOSE k \in 1..Len(UpperCase) : UpperCase[k] = ch]]

LowerChar(ch) == IF ch \in UpperSet THEN LowerMap[ch] ELSE ch

\* str.lower()
Lower(s) == [k \in 1..Len(s) |-> LowerChar(s[k])]

\* ''.join(lines)
RECURSIVE Join(_)
Join(ls) == IF ls = <<>> THEN <<>> ELSE Head(ls) \o Join(Tail(ls))

\* f.readlines(): cut after every "\n"; a last line without "\n" is kept
RECURSIVE ReadLinesFrom(_, _)
ReadLinesFrom(text, cur) ==
    IF text = <<>> THEN (IF cur = <<>> THEN <<>> ELSE <<cur>>)
    ELSE IF Head(text) = "\n"
         THEN <<Append(cur, "\n")>> \o ReadLinesFrom(Tail(text), <<>>)
         ELSE ReadLinesFrom(Tail(text), Append(cur, Head(text)))

ReadLines(text) == ReadLinesFrom(text, <<>>)

(***************************************************************************)
(* The configuration tables.                                               *)
(***************************************************************************)

commentTokens ==
    [c      |-> [line  |-> << <<"/","/">> >>,
                 block |-> << << <<"/","*">>, <<"*","/">> >> >>],
     python |-> [line  |-> << <<"#">> >>,
                 block |-> << << <<"\"","\"","\"">>, <<"\"","\"","\"">> >> >>],
     bash   |-> [line  |-> << <<"#">> >>,
                 block |-> << >>],
     java   |-> [line  |-> << <<"/","/">> >>,
                 block |-> << << <<"/","*">>, <<"*","/">> >> >>]]

licenseIndicators ==
    << <<"l","i","c","e","n","s","e">>,
       <<"l","i","c","e","n","c","e">>,
       <<"c","o","p","y","r","i","g","h","t">>,
       <<"a","u","t","h","o","r">> >>

(***************************************************************************)
(* findLicense                                                             *)
(***************************************************************************)

\* the inner loop comparing the line as written, not lowered
RECURSIVE ScanLinesCaseSensitive(_, _, _)
ScanLinesCaseSensitive(lines, indicatorText, lineNo) ==
    IF lineNo >= Len(lines) THEN -1
    ELSE IF Contains(At(lines, lineNo), indicatorText) THEN lineNo
    ELSE ScanLinesCaseSensitive(lines, indicatorText, lineNo + 1)

\* the inner loop: the first line at or after lineNo whose lowered text
\* contains the indicator, or -1
RECURSIVE ScanLines(_, _, _)
ScanLines(lines, indicatorText, lineNo) ==
    IF lineNo >= Len(lines) THEN -1
    ELSE IF Contains(Lower(At(lines, lineNo)), indicatorText) THEN lineNo
    ELSE ScanLines(lines, indicatorText, lineNo + 1)

\* the outer loop over the indicators, from index i on
RECURSIVE FindFrom(_, _, _)
FindFrom(lines, indicators, i) ==
    IF i >= Len(indicators) THEN <<-1, -1>>
    ELSE LET lineNo == ScanLines(lines, At(indicators, i), 0) IN
         IF lineNo >= 0 THEN <<lineNo, i>>
         ELSE FindFrom(lines, indicators, i + 1)

findLicense(lines, indicators) == FindFrom(lines, indicators, 0)

(***************************************************************************)
(* gatherCommentBlock                                                      *)
(***************************************************************************)

\* lines 66-70: does no line-comment prefix open the stripped hit line?
InBlockComment(startLine, lineComments) ==
    ~ \E k \in 0..(Len(lineComments) - 1) : StartsWith(startLine, At(lineComments, k))

\* lines 66-70: the first prefix that opens the stripped hit line
RECURSIVE FirstLineCmt(_, _, _)
FirstLineCmt(startLine, lineComments, k) ==
    IF k >= Len(lineComments) THEN <<>>
    ELSE IF StartsWith(startLine, At(lineComments, k)) THEN At(lineComments, k)
    ELSE FirstLineCmt(startLine, lineComments, k + 1)

\* lines 74-76: walk up while the line above starts with the prefix
RECURSIVE RunBegin(_, _, _)
RunBegin(lines, commentBlockBegin, lineCmt) ==
    IF commentBlockBegin > 0
       /\ StartsWith(Strip(At(lines, commentBlockBegin - 1)), lineCmt)
    THEN RunBegin(lines, commentBlockBegin - 1, lineCmt)
    ELSE commentBlockBegin

\* lines 77-79 with "if" for "while": one step down at most
RunEndOneStep(lines, commentBlockEnd, lineCmt) ==
    IF commentBlockEnd < Len(lines) - 1
       /\ StartsWith(Strip(At(lines, commentBlockEnd + 1)), lineCmt)
    THEN commentBlockEnd + 1
    ELSE commentBlockEnd

\* lines 77-79: walk down while the line below starts with the prefix
RECURSIVE RunEnd(_, _, _)
RunEnd(lines, commentBlockEnd, lineCmt) ==
    IF commentBlockEnd < Len(lines) - 1
       /\ StartsWith(Strip(At(lines, commentBlockEnd + 1)), lineCmt)
    THEN RunEnd(lines, commentBlockEnd + 1, lineCmt)
    ELSE commentBlockEnd

\* lines 85-93 without the test for a closer (lines 91-93)
RECURSIVE ScanPairsOpenOnly(_, _, _)
ScanPairsOpenOnly(curLine, blockComments, k) ==
    IF k >= Len(blockComments) THEN [kind |-> "none", e |-> <<>>]
    ELSE IF StartsWith(curLine, At(blockComments, k)[1])
         THEN [kind |-> "open", e |-> At(blockComments, k)[2]]
    ELSE ScanPairsOpenOnly(curLine, blockComments, k + 1)

\* lines 85-93 for one line: the pairs are tried in order from pair k on;
\* a pair's opener is tested before its closer
RECURSIVE ScanPairs(_, _, _)
ScanPairs(curLine, blockComments, k) ==
    IF k >= Len(blockComments) THEN [kind |-> "none", e |-> <<>>]
    ELSE IF StartsWith(curLine, At(blockComments, k)[1])
         THEN [kind |-> "open", e |-> At(blockComments, k)[2]]
    ELSE IF EndsWith(curLine, At(blockComments, k)[2])
         THEN [kind |-> "close", e |-> <<>>]
    ELSE ScanPairs(curLine, blockComments, k + 1)

\* lines 83-98: scan upward from line i for the opener
RECURSIVE FindOpener(_, _, _)
FindOpener(lines, i, blockComments) ==
    IF i < 0 THEN [found |-> FALSE, begin |-> -1, e |-> <<>>]
    ELSE LET v == ScanPairs(Strip(At(lines, i)), blockComments, 0) IN
         IF v.kind = "open" THEN [found |-> TRUE, begin |-> i, e |-> v.e]
         ELSE IF v.kind = "close" THEN [found |-> FALSE, begin |-> -1, e |-> <<>>]
         ELSE FindOpener(lines, i - 1, blockComments)

\* lines 99-103: scan downward from line i for the closer; commentBlockEnd
\* keeps its value when no line ends with it
RECURSIVE FindClose(_, _, _, _)
FindClose(lines, i, endBlockCmt, commentBlockEnd) ==
    IF i >= Len(lines) THEN commentBlockEnd
    ELSE IF EndsWith(Strip(At(lines, i)), endBlockCmt) THEN i
    ELSE FindClose(lines, i + 1, endBlockCmt, commentBlockEnd)

\* lines 63-103: the block before the empty lines around it are grabbed
RawBlock(lines, start, lineComments, blockComments) ==
    LET startLine == Strip(At(lines, start)) IN
    IF ~ InBlockComment(startLine, lineComments)
    THEN LET lineCmt == FirstLineCmt(startLine, lineComments, 0) IN
         [valid |-> TRUE, block |-> FALSE, e |-> <<>>,
          begin |-> RunBegin(lines, start, lineCmt),
          end   |-> RunEnd(lines, start, lineCmt)]
    ELSE LET o == FindOpener(lines, start - 1, blockComments) IN
         IF ~ o.found
         THEN [valid |-> FALSE, block |-> TRUE, e |-> <<>>, begin |-> -1, end |-> -1]
         ELSE [valid |-> TRUE, block |-> TRUE, e |-> o.e,
               begin |-> o.begin,
               end   |-> FindClose(lines, start + 1, o.e, start)]

\* lines 105-108
RECURSIVE GrabBefore(_, _, _)
GrabBefore(lines, i, commentBlockBegin) ==
    IF i < 0 THEN commentBlockBegin
    ELSE IF Len(Strip(At(lines, i))) > 0 THEN i + 1
    ELSE GrabBefore(lines, i - 1, commentBlockBegin)

\* lines 109-112 taking the end of the file for a line that is not empty
RECURSIVE GrabAfterPastEnd(_, _, _)
GrabAfterPastEnd(lines, i, commentBlockEnd) ==
    IF i >= Len(lines) THEN Len(lines)
    ELSE IF Len(Strip(At(lines, i))) > 0 THEN i - 1
    ELSE GrabAfterPastEnd(lines, i + 1, commentBlockEnd)

\* lines 109-112
RECURSIVE GrabAfter(_, _, _)
GrabAfter(lines, i, commentBlockEnd) ==
    IF i >= Len(lines) THEN commentBlockEnd
    ELSE IF Len(Strip(At(lines, i))) > 0 THEN i - 1
    ELSE GrabAfter(lines, i + 1, commentBlockEnd)

gatherCommentBlock(lines, start, lineComments, blockComments) ==
    LET raw == RawBlock(lines, start, lineComments, blockComments) IN
    IF ~ raw.valid THEN <<-1, -1>>
    ELSE <<GrabBefore(lines, raw.begin - 1, raw.begin),
           GrabAfter(lines, raw.end + 1, raw.end)>>

(***************************************************************************)
(* writeFile: the text the three writes leave in the file                  *)
(***************************************************************************)

\* writeFile keeping oldLines[:beforeLicense], one line short
writeFileDropsLine(oldLines, beforeLicense, afterLicense, license) ==
    Join(PyUpTo(oldLines, IF beforeLicense < 0 THEN 0 ELSE beforeLicense))
        \o Join(license)
        \o Join(PyFrom(oldLines, afterLicense))

writeFile(oldLines, beforeLicense, afterLicense, license) ==
    Join(PyUpTo(oldLines, beforeLicense + 1))
        \o Join(license)
        \o Join(PyFrom(oldLines, afterLicense))

(***************************************************************************)
(* The inputs: files and headers built from a few representative lines.    *)
(***************************************************************************)

\* most lines a file of the model has
MaxLines == 3
BlankLine     == <<"\n">>
CodeLine      == <<"x", "\n">>
NoNewline     == <<"x">>
AuthorLine    == <<"a","u","t","h","o","r","\n">>
LicenceLine   == <<"l","i","c","e","n","c","e","\n">>
SlashLicense  == <<"/","/"," ","L","i","c","e","n","s","e","\n">>
OpenC         == <<"/","*","\n">>
CloseCopy     == <<" ","c","o","p","y","r","i","g","h","t"," ","*","/","\n">>
OneLineC      == <<"/","*"," ","x"," ","*","/","\n">>
HashLicense   == <<"#"," ","l","i","c","e","n","s","e","\n">>
HashUnterm    == <<"#"," ","l","i","c","e","n","s","e">>
TripleQuote   == <<"\"","\"","\"","\n">>
QuoteCopy     == <<"c","o","p","y","r","i","g","h","t"," ","\"","\"","\"","\n">>

\* the languages tried; java has the comment tokens of c
Langs == {"c", "python", "bash"}

\* the lines a file in the given language is built from
LinesOf(l) ==
    {BlankLine, CodeLine, AuthorLine} \cup
    (CASE l = "c"      -> {SlashLicense, OpenC, CloseCopy, OneLineC}
       [] l = "python" -> {HashLicense, TripleQuote, QuoteCopy}
       [] l = "bash"   -> {HashLicense, NoNewline})

\* the lines a file given to checkFile is built from
FileLinesOf(l) == LinesOf(l) \cup {LicenceLine}

\* the canonical headers tried with the given language: comments of the
\* language with an indicator in them; the last one of bash has no newline
\* at its end
HeadersOf(l) ==
    CASE l = "c"      -> {<<SlashLicense>>, <<OpenC, CloseCopy>>}
      [] l = "python" -> {<<HashLicense>>, <<TripleQuote, QuoteCopy>>}
      [] l = "bash"   -> {<<HashLicense>>, <<HashUnterm>>}

\* all sequences over S of length lo..hi
SeqsOf(S, lo, hi) == UNION {[1..n -> S] : n \in lo..hi}

(***************************************************************************)
(* State                                                                   *)
(***************************************************************************)

VARIABLES
    disk,           \* the text of the file
    header,         \* the license header read by main (a list of lines)
    lang,           \* the language of the file
    insertNewLine,  \* the newline option
    pc,             \* where the program is
    fileLines,      \* checkFile: the lines read
    ind,            \* checkFile: the indicators still to try
    lic,            \* checkFile: the header, padded
    lineNo,         \* checkFile: the hit line
    indicator,      \* checkFile: the index in ind of the hit indicator
    begin,          \* checkFile: the block found
    end,
    rawBlock,       \* gatherCommentBlock: the block before empty lines are grabbed
    run,            \* history: 1 in the first run of the program, 2 in the second
    orig,           \* history: the text of the file when the run began
    tried,          \* history: the attempts of the run
    outcome,        \* history: the message the run ended with
    writes          \* history: calls of writeFile in the run

vars == <<disk, header, lang, insertNewLine, pc, fileLines, ind, lic, lineNo,
          indicator, begin, end, rawBlock, run, orig, tried, outcome, writes>>

NoRaw == [valid |-> FALSE, block |-> FALSE, e |-> <<>>, begin |-> -1, end |-> -1]

Locals0 ==
    /\ fileLines = <<>>
    /\ ind = <<>>
    /\ lic = <<>>
    /\ lineNo = -1
    /\ indicator = -1
    /\ begin = -1
    /\ end = -1
    /\ rawBlock = NoRaw
    /\ tried = <<>>
    /\ outcome = ""
    /\ writes = 0

(***************************************************************************)
(* main and checkFile                                                      *)
(***************************************************************************)

Init ==
    /\ lang \in Langs
    /\ disk \in {Join(ls) : ls \in SeqsOf(FileLinesOf(lang), 0, MaxLines)}
    /\ header \in HeadersOf(lang)
    /\ insertNewLine \in BOOLEAN
    /\ pc = "start"
    /\ run = 1
    /\ orig = disk
    /\ Locals0

\* lines 126-132
CheckFileOpen ==
    /\ pc = "start"
    /\ fileLines' = ReadLines(disk)
    /\ begin' = -1
    /\ end' = -1
    /\ ind' = licenseIndicators
    /\ lic' = header
    /\ indicator' = -1
    /\ lineNo' = -1
    /\ tried' = <<>>
    /\ outcome' = ""
    /\ writes' = 0
    /\ orig' = disk
    /\ pc' = "loop"
    /\ UNCHANGED <<disk, header, lang, insertNewLine, rawBlock, run>>

\* line 133
WhileTest == begin < 0 /\ Len(ind) > 0

\* lines 146-149: the header padded for the block found
Padded(l, b, e) ==
    LET l1 == IF insertNewLine /\ b > 0 THEN PyInsertFront(l, BlankLine) ELSE l
    IN  IF insertNewLine /\ e < Len(fileLines) - 1 THEN PyAppend(l1, BlankLine) ELSE l1

\* lines 137-138 and 160-161 with the append forgotten
WithNewLineNever(l) == l

\* lines 137-138 and 160-161
WithNewLine(l) == IF insertNewLine THEN PyAppend(l, BlankLine) ELSE l

\* what an attempt of the loop tried: the indicator hit, its line, the block found
Attempt(hit, range) ==
    [text |-> At(ind, hit[2]), lineNo |-> hit[1], begin |-> range[1], end |-> range[2]]

\* lines 135-140: no indicator left occurs in the file
NoIndicator(hit) ==
    /\ hit[1] < 0
    /\ lineNo' = hit[1] /\ indicator' = hit[2]
    /\ lic' = WithNewLine(lic)
    /\ disk' = writeFile(fileLines, -1, 0, lic')
    /\ writes' = writes + 1
    /\ outcome' = "No license indicator found."
    /\ pc' = "done"
    /\ UNCHANGED <<header, lang, insertNewLine, fileLines, ind, begin, end,
                   rawBlock, run, orig, tried>>

\* lines 143-151, 155: the block is the header
HeaderCorrect(hit, range) ==
    /\ hit[1] >= 0
    /\ range[1] >= 0
    /\ lineNo' = hit[1] /\ indicator' = hit[2]
    /\ begin' = range[1] /\ end' = range[2]
    /\ lic' = Padded(lic, range[1], range[2])
    /\ PySlice(fileLines, range[1], range[2] + 1) = lic'
    /\ tried' = Append(tried, Attempt(hit, range))
    /\ outcome' = "License header correct."
    /\ pc' = "done"
    /\ UNCHANGED <<disk, header, lang, insertNewLine, fileLines, ind, rawBlock,
                   run, orig, writes>>

\* lines 143-150, 152-155: the block differs and is replaced
HeaderReplace(hit, range) ==
    /\ hit[1] >= 0
    /\ range[1] >= 0
    /\ lineNo' = hit[1] /\ indicator' = hit[2]
    /\ begin' = range[1] /\ end' = range[2]
    /\ lic' = Padded(lic, range[1], range[2])
    /\ PySlice(fileLines, range[1], range[2] + 1) # lic'
    /\ disk' = writeFile(fileLines, range[1] - 1, range[2] + 1, lic')
    /\ writes' = writes + 1
    /\ tried' = Append(tried, Attempt(hit, range))
    /\ outcome' = "License headers differ. Replacing it."
    /\ pc' = "done"
    /\ UNCHANGED <<header, lang, insertNewLine, fileLines, ind, rawBlock, run, orig>>

\* lines 143, 156-157 slicing at the hit indicator, not after it
FallThroughRetry(hit, range) ==
    /\ hit[1] >= 0
    /\ range[1] < 0
    /\ lineNo' = hit[1] /\ indicator' = hit[2]
    /\ begin' = range[1] /\ end' = range[2]
    /\ ind' = PyFrom(ind, hit[2])
    /\ tried' = Append(tried, Attempt(hit, range))
    /\ UNCHANGED <<disk, header, lang, insertNewLine, pc, fileLines, lic, rawBlock,
                   run, orig, outcome, writes>>

\* lines 143, 156-157: no block around the hit, go on with the indicators after it
FallThrough(hit, range) ==
    /\ hit[1] >= 0
    /\ range[1] < 0
    /\ lineNo' = hit[1] /\ indicator' = hit[2]
    /\ begin' = range[1] /\ end' = range[2]
    /\ ind' = PyFrom(ind, hit[2] + 1)
    /\ tried' = Append(tried, Attempt(hit, range))
    /\ UNCHANGED <<disk, header, lang, insertNewLine, pc, fileLines, lic, rawBlock,
                   run, orig, outcome, writes>>

\* line 134
Hit == findLicense(fileLines, ind)

\* lines 141-142
Range(hit) == gatherCommentBlock(fileLines, hit[1], commentTokens[lang].line,
                                 commentTokens[lang].block)

\* lines 133-157: one pass of the loop, by the branch it takes
LoopNoIndicator ==
    /\ pc = "loop"
    /\ WhileTest
    /\ LET hit == Hit IN NoIndicator(hit)

LoopHeaderCorrect ==
    /\ pc = "loop"
    /\ WhileTest
    /\ LET hit == Hit IN
       /\ hit[1] >= 0
       /\ LET range == Range(hit) IN HeaderCorrect(hit, range)

LoopHeaderReplace ==
    /\ pc = "loop"
    /\ WhileTest
    /\ LET hit == Hit IN
       /\ hit[1] >= 0
       /\ LET range == Range(hit) IN HeaderReplace(hit, range)

LoopFallThrough ==
    /\ pc = "loop"
    /\ WhileTest
    /\ LET hit == Hit IN
       /\ hit[1] >= 0
       /\ LET range == Range(hit) IN FallThrough(hit, range)

\* lines 133, 159-162: the loop ends with no block found
NoValidIndicator ==
    /\ pc = "loop"
    /\ ~ WhileTest
    /\ lic' = WithNewLine(lic)
    /\ disk' = writeFile(fileLines, -1, 0, lic')
    /\ writes' = writes + 1
    /\ outcome' = "No valid license indicator found."
    /\ pc' = "done"
    /\ UNCHANGED <<header, lang, insertNewLine, fileLines, ind, lineNo, indicator,
                   begin, end, rawBlock, run, orig, tried>>

\* after its first run the program is run a second time on the file it left,
\* with the same header and options
RunAgain ==
    /\ pc = "done"
    /\ run = 1
    /\ run' = 2
    /\ pc' = "start"
    /\ UNCHANGED <<disk, header, lang, insertNewLine, fileLines, ind, lic, lineNo,
                   indicator, begin, end, rawBlock, orig, tried, outcome, writes>>

Next ==
    \/ CheckFileOpen
    \/ LoopNoIndicator
    \/ LoopHeaderCorrect
    \/ LoopHeaderReplace
    \/ LoopFallThrough
    \/ NoValidIndicator
    \/ RunAgain

Spec == Init /\ [][Next]_vars

(***************************************************************************)
(* findLicense and gatherCommentBlock applied to lines and hits of every   *)
(* kind                                                                    *)
(***************************************************************************)

\* most lines given to the two functions
MaxFnLines == 4

\* indicators[k:], the lists checkFile passes
IndicatorLists == {PyFrom(licenseIndicators, k) : k \in 0..(Len(licenseIndicators) - 1)}

FnInit ==
    /\ lang \in Langs
    /\ fileLines \in SeqsOf(LinesOf(lang), 1, MaxFnLines)
    /\ disk = <<>>
    /\ orig = <<>>
    /\ header = <<>>
    /\ insertNewLine = FALSE
    /\ pc = "fn"
    /\ run = 1
    /\ ind = <<>>
    /\ lic = <<>>
    /\ lineNo = -1
    /\ indicator = -1
    /\ begin = -1
    /\ end = -1
    /\ rawBlock = NoRaw
    /\ tried = <<>>
    /\ outcome = ""
    /\ writes = 0

\* findLicense(fileLines, indicators) for a list of indicators
FnFind ==
    /\ pc = "fn"
    /\ \E indicators \in IndicatorLists :
          LET hit == findLicense(fileLines, indicators) IN
          /\ ind' = indicators
          /\ lineNo' = hit[1]
          /\ indicator' = hit[2]
    /\ pc' = "found"
    /\ UNCHANGED <<disk, header, lang, insertNewLine, fileLines, lic, begin,
                   end, rawBlock, run, orig, tried, outcome, writes>>

\* gatherCommentBlock(fileLines, start, ...) for a hit line start
FnGather ==
    /\ pc = "fn"
    /\ \E start \in 0..(Len(fileLines) - 1) :
          LET range == gatherCommentBlock(fileLines, start, commentTokens[lang].line,
                                          commentTokens[lang].block) IN
          /\ lineNo' = start
          /\ rawBlock' = RawBlock(fileLines, start, commentTokens[lang].line,
                                  commentTokens[lang].block)
          /\ begin' = range[1]
          /\ end' = range[2]
    /\ pc' = "gathered"
    /\ UNCHANGED <<disk, header, lang, insertNewLine, fileLines, ind, lic, indicator,
                   run, orig, tried, outcome, writes>>

FnNext ==
    \/ FnFind
    \/ FnGather

SpecFn == FnInit /\ [][FnNext]_vars

(***************************************************************************)
(* Properties of findLicense and gatherCommentBlock, checked under SpecFn  *)
(***************************************************************************)

\* the least element of a non-empty set of integers
Least(S) == CHOOSE n \in S : \A m \in S : n <= m

LineIndices == 0..(Len(fileLines) - 1)
Stripped(n) == Strip(At(fileLines, n))
IsBlank(n) == \A k \in 1..Len(At(fileLines, n)) : At(fileLines, n)[k] \in Whitespace

\* the indicator occurs in line n, whatever the case of the letters
OccursIn(n, text) == Contains(Lower(At(fileLines, n)), Lower(text))
LinesWith(text) == {n \in LineIndices : OccursIn(n, text)}
Occurring == {i \in 0..(Len(ind) - 1) : LinesWith(At(ind, i)) # {}}

\* C6: findLicense returns the indicator of the smallest index that occurs
\* in some line, whatever the case of the letters, with the first line it
\* occurs in, whatever indicators of larger index occur in earlier lines;
\* it returns (-1,-1) exactly when no indicator occurs in any line.
C6_IndicatorPriority ==
    pc = "found" =>
        IF Occurring = {}
        THEN lineNo = -1 /\ indicator = -1
        ELSE /\ indicator = Least(Occurring)
             /\ lineNo = Least(LinesWith(At(ind, indicator)))

\* C6 witness: the hit is a line with a capital letter, found with the first
\* indicator although a later indicator occurs in an earlier line
C6_Witness ==
    /\ pc = "found"
    /\ indicator = 0
    /\ lineNo > 0
    /\ Lower(At(fileLines, lineNo)) # At(fileLines, lineNo)
    /\ \E j \in Occurring : j > indicator /\ Least(LinesWith(At(ind, j))) < lineNo

\* C10: gatherCommentBlock returns (-1,-1) or a pair (begin,end) with
\* 0 <= begin <= hit <= end <= len(lines)-1, for every hit line of every
\* file that is not empty.
C10_RangeValid ==
    pc = "gathered" =>
        \/ begin = -1 /\ end = -1
        \/ /\ 0 <= begin
           /\ begin <= lineNo
           /\ lineNo <= end
           /\ end <= Len(fileLines) - 1

\* C10 witness: an empty hit line strictly inside the block found, with
\* empty lines after the block up to the end of the file
C10_Witness ==
    /\ pc = "gathered"
    /\ IsBlank(lineNo)
    /\ 0 <= begin /\ begin < lineNo /\ lineNo < end
    /\ end < Len(fileLines) - 1
    /\ \A n \in (end + 1)..(Len(fileLines) - 1) : IsBlank(n)

\* C8: a valid range has no empty line next to it: when begin > 0 the
\* line begin-1 is not empty, and when end < len(lines)-1 the line end+1 is
\* not empty.
C8_BlankAbsorbed ==
    (pc = "gathered" /\ begin >= 0) =>
        /\ begin > 0 => ~ IsBlank(begin - 1)
        /\ end < Len(fileLines) - 1 => ~ IsBlank(end + 1)

\* the lines at or below the hit that end with the closer of the block
ClosersFromHit == {n \in lineNo..(Len(fileLines) - 1) : EndsWith(Stripped(n), rawBlock.e)}

\* C9: for a hit in a block comment whose opener was found, the end of the
\* block before empty lines are grabbed is the first line at or below the
\* hit line that ends with the closer of that opener.
C9_BlockEnd ==
    (pc = "gathered" /\ rawBlock.valid /\ rawBlock.block /\ ClosersFromHit # {}) =>
        rawBlock.end = Least(ClosersFromHit)

LinePrefixes == {At(commentTokens[lang].line, k) : k \in 0..(Len(commentTokens[lang].line) - 1)}
HasPrefix(n, p) == StartsWith(Stripped(n), p)

\* lines i..j all start with p and the lines next to them, if any, do not
IsRun(i, j, p) ==
    /\ i <= j
    /\ \A n \in i..j : HasPrefix(n, p)
    /\ i > 0 => ~ HasPrefix(i - 1, p)
    /\ j < Len(fileLines) - 1 => ~ HasPrefix(j + 1, p)

\* the lines next to i..j, if any, are not empty
NoBlankBeside(i, j) ==
    /\ i > 0 => ~ IsBlank(i - 1)
    /\ j < Len(fileLines) - 1 => ~ IsBlank(j + 1)

\* C4 as claimed: for a run i..j of lines starting with one line-comment
\* prefix, with no such line next to it, gatherCommentBlock returns (i,j)
\* for every hit line of the run.
C4_RunBoundariesOriginal ==
    pc = "gathered" =>
        \A p \in LinePrefixes : \A i, j \in LineIndices :
            (i <= lineNo /\ lineNo <= j /\ IsRun(i, j, p)) => (begin = i /\ end = j)

\* C4 amended: for a run i..j of lines starting with one line-comment prefix
\* whose neighbours, where they exist, neither start with the prefix nor are
\* empty, gatherCommentBlock returns (i,j) for every hit line of the run.
C4_RunBoundaries ==
    pc = "gathered" =>
        \A p \in LinePrefixes : \A i, j \in LineIndices :
            (i <= lineNo /\ lineNo <= j /\ IsRun(i, j, p) /\ NoBlankBeside(i, j))
                => (begin = i /\ end = j)

\* C4 witness: the hit is the first line of a run of three lines at the top
\* of the file, followed by a line of code
C4_Witness ==
    /\ pc = "gathered"
    /\ Len(fileLines) = 4
    /\ lineNo = 0
    /\ \E p \in LinePrefixes : IsRun(0, 2, p)
    /\ ~ IsBlank(3)
    /\ begin = 0 /\ end = 2

BlockPairs == {At(commentTokens[lang].block, k) : k \in 0..(Len(commentTokens[lang].block) - 1)}
EndsWithClose(n) == \E pair \in BlockPairs : EndsWith(Stripped(n), pair[2])
StartsWithOpen(n) == \E pair \in BlockPairs : StartsWith(Stripped(n), pair[1])
NoOpenBetween(k, h) == \A m \in (k + 1)..(h - 1) : ~ StartsWithOpen(m)

\* C5 as claimed: when a line k above the hit ends with a closer and no line
\* strictly between k and the hit starts with an opener, gatherCommentBlock
\* returns (-1,-1).
C5_FalseOpenerOriginal ==
    pc = "gathered" =>
        ((\E k \in 0..(lineNo - 1) : EndsWithClose(k) /\ NoOpenBetween(k, lineNo))
            => (begin = -1 /\ end = -1))

\* C5 amended: when the hit line starts with no line-comment prefix, a line k
\* above it ends with a closer and does not itself start with an opener, and
\* no line strictly between k and the hit starts with an opener,
\* gatherCommentBlock returns (-1,-1).
C5_FalseOpener ==
    pc = "gathered" =>
        (( /\ \A p \in LinePrefixes : ~ HasPrefix(lineNo, p)
           /\ \E k \in 0..(lineNo - 1) :
                 /\ EndsWithClose(k)
                 /\ ~ StartsWithOpen(k)
                 /\ NoOpenBetween(k, lineNo) )
            => (begin = -1 /\ end = -1))

\* C5 witness: a closer right above the hit and an opener above the closer
C5_Witness ==
    /\ pc = "gathered"
    /\ lineNo >= 2
    /\ ~ IsBlank(lineNo)
    /\ \A p \in LinePrefixes : ~ HasPrefix(lineNo, p)
    /\ EndsWithClose(lineNo - 1) /\ ~ StartsWithOpen(lineNo - 1)
    /\ StartsWithOpen(lineNo - 2) /\ ~ EndsWithClose(lineNo - 2)
    /\ begin = -1 /\ end = -1

(***************************************************************************)
(* Properties of checkFile, checked under Spec                             *)
(***************************************************************************)

Correct  == "License header correct."
Replaced == "License headers differ. Replacing it."
Inserted == {"No license indicator found.", "No valid license indicator found."}

\* the lines of the file when the run began
OldLines == ReadLines(orig)

\* the indicators that occur in some of the lines
IndicatorsIn(lines) ==
    {k \in 0..(Len(licenseIndicators) - 1) :
        \E n \in 1..Len(lines) : Contains(Lower(lines[n]), At(licenseIndicators, k))}

\* the last line of the header ends with a newline
HeaderTerminated == header # <<>> /\ EndsWith(header[Len(header)], <<"\n">>)

\* the canonical header at the top, one empty line if asked for, then the lines
FreshLines(lines) == header \o (IF insertNewLine THEN <<BlankLine>> ELSE <<>>) \o lines

\* C1: when the program has run twice on a file with the same header and
\* newline option, the second run has left the file as the first run left
\* it: it ended with "License header correct." and did not call writeFile.
C1_Idempotent ==
    (run = 2 /\ pc = "done") => (disk = orig /\ outcome = Correct /\ writes = 0)

\* C2: for a file in which no indicator occurs, checkFile writes, once, the
\* header lines, then one empty line if insertNewLine is set and none if it
\* is not, then all lines of the file in their order; read back, these are
\* the lines of the file whenever the header's last line ends with a newline.
C2_FreshInsertion ==
    pc = "done" =>
        LET old == OldLines IN
        IndicatorsIn(old) = {} =>
            /\ writes = 1
            /\ outcome \in Inserted
            /\ disk = Join(FreshLines(old))
            /\ HeaderTerminated => ReadLines(disk) = FreshLines(old)

\* C2 witness: a header put, with the empty line, before a file of two
\* lines of code that has no indicator
C2_Witness ==
    /\ pc = "done"
    /\ run = 1
    /\ IndicatorsIn(OldLines) = {}
    /\ Len(OldLines) >= 2
    /\ \A n \in 1..Len(OldLines) : Strip(OldLines[n]) # <<>>
    /\ insertNewLine
    /\ outcome = "No license indicator found."
    /\ ReadLines(disk) = header \o <<BlankLine>> \o OldLines

\* the header as the claim pads it for the block begin..end of the lines
PaddedHeader(lines) ==
    (IF insertNewLine /\ begin > 0 THEN <<BlankLine>> ELSE <<>>)
        \o header
        \o (IF insertNewLine /\ end < Len(lines) - 1 THEN <<BlankLine>> ELSE <<>>)

\* the lines before begin, the padded header, the lines after end
SplicedLines(lines) ==
    SubSeq(lines, 1, begin) \o PaddedHeader(lines) \o SubSeq(lines, end + 2, Len(lines))

\* C3: when checkFile has found a block begin..end, it rewrites the file
\* exactly when the lines begin..end differ from the padded header, and the
\* file it writes is the lines before begin, the padded header, and the lines
\* after end: the lines outside the block are kept once and in order, those
\* inside are gone.
C3_RewriteSplice ==
    (pc = "done" /\ begin >= 0) =>
        LET old == OldLines IN
        /\ outcome \in {Correct, Replaced}
        /\ outcome = Replaced <=> SubSeq(old, begin + 1, end + 1) # PaddedHeader(old)
        /\ outcome = Replaced =>
              /\ writes = 1
              /\ disk = Join(SplicedLines(old))
              /\ HeaderTerminated => ReadLines(disk) = SplicedLines(old)
        /\ outcome = Correct => (writes = 0 /\ disk = orig)

\* C3 witness: a block of the first run with a line of code before it and
\* a line of code after it is replaced
C3_Witness ==
    /\ pc = "done"
    /\ run = 1
    /\ outcome = Replaced
    /\ 0 < begin
    /\ end < Len(OldLines) - 1
    /\ Strip(OldLines[begin]) # <<>>
    /\ Strip(OldLines[end + 2]) # <<>>
    /\ ReadLines(disk) = SplicedLines(OldLines)

\* the place of an indicator in the list of all indicators
Priority(text) ==
    CHOOSE k \in 0..(Len(licenseIndicators) - 1) : At(licenseIndicators, k) = text

Last(sq) == sq[Len(sq)]

\* C7: the attempts of a run hit indicators of strictly falling priority,
\* each the first one that occurs after the one hit before, so none is tried
\* twice and there are at most len(indicators) attempts; only the last
\* attempt can have found a block; after an attempt that found none the loop
\* goes on with just the indicators after the one hit, in their order; the
\* run ends by reconciling the first block found or, when no attempt found
\* one, by writing the header and the whole file after it.
C7_FallThrough ==
    LET occurring == IndicatorsIn(OldLines)
        hits == [a \in 1..Len(tried) |-> Priority(tried[a].text)]
    IN
    /\ Len(tried) <= Len(licenseIndicators)
    /\ pc = "loop" => Len(ind) + Len(tried) <= Len(licenseIndicators)
    /\ \A a, b \in 1..Len(tried) : a < b => hits[a] < hits[b]
    /\ \A a \in 1..Len(tried) :
          /\ hits[a] \in occurring
          /\ \A k \in occurring : k < hits[a] => \E b \in 1..(a - 1) : hits[b] = k
    /\ \A a \in 1..(Len(tried) - 1) : tried[a].begin < 0
    /\ (pc = "loop" /\ tried # <<>>) =>
          /\ Last(tried).begin < 0
          /\ ind = PyFrom(licenseIndicators, hits[Len(tried)] + 1)
    /\ pc = "done" =>
          IF tried # <<>> /\ Last(tried).begin >= 0
          THEN /\ outcome \in {Correct, Replaced}
               /\ begin = Last(tried).begin
               /\ end = Last(tried).end
          ELSE /\ outcome \in Inserted
               /\ disk = Join(FreshLines(OldLines))
               /\ \A k \in occurring : \E a \in 1..Len(tried) : hits[a] = k

\* C7 witness: the first attempt found no block and the second did
C7_Witness ==
    /\ pc = "done"
    /\ Len(tried) = 2
    /\ Last(tried).begin >= 0
    /\ outcome = Replaced

====
